---- MODULE Spec2Model ----
(***************************************************************************)
(* pyasst/spider.py: the Delay throttle and the RequestHandler (request    *)
(* retry loop, streaming download).  Strings that the code transforms      *)
(* (the HTTP method, the Content-Length header value) are sequences of     *)
(* one-character strings; byte strings are sequences of segments           *)
(* [rid, idx, len]: `len` bytes of chunk `idx` of the response `rid`.      *)
(***************************************************************************)
EXTENDS Integers, Sequences, FiniteSets, TLC

\* ---------------------------------------------------------------- bounds
MaxRetry == 2        \* RequestHandler(retry=...) ranges over -1..MaxRetry
MaxStep == 2         \* Delay(step=...) ranges over 1..MaxStep
MaxDispatch == 3     \* request calls made through one RequestHandler
MaxChunks == 3       \* chunks a streamed response body yields
MaxText == 6         \* characters of a decoded response body

None == "None"

\* ------------------------------------------------------- strings, parsing
UpperChars == <<"A","B","C","D","E","F","G","H","I","J","K","L","M",
                "N","O","P","Q","R","S","T","U","V","W","X","Y","Z">>
LowerChars == <<"a","b","c","d","e","f","g","h","i","j","k","l","m",
                "n","o","p","q","r","s","t","u","v","w","x","y","z">>

LowerChar(c) ==
    IF \E i \in 1..Len(UpperChars) : UpperChars[i] = c
    THEN LowerChars[CHOOSE i \in 1..Len(UpperChars) : UpperChars[i] = c]
    ELSE c

\* str.lower()
lower(s) == [i \in 1..Len(s) |-> LowerChar(s[i])]

Digits == <<"0","1","2","3","4","5","6","7","8","9">>

IsDigit(c) == \E i \in 1..Len(Digits) : Digits[i] = c

DigitVal(c) == (CHOOSE i \in 1..Len(Digits) : Digits[i] = c) - 1

RECURSIVE DecVal(_)
DecVal(s) ==
    IF s = <<>> THEN 0
    ELSE 10 * DecVal(SubSeq(s, 1, Len(s) - 1)) + DigitVal(s[Len(s)])

\* int(s) on a header value: a decimal number with an optional sign, or
\* ValueError
IsInt(s) ==
    LET d == IF s # <<>> /\ s[1] \in {"-", "+"} THEN Tail(s) ELSE s
    IN  d # <<>> /\ \A i \in 1..Len(d) : IsDigit(d[i])

int(s) ==
    IF s[1] = "-" THEN 0 - DecVal(Tail(s))
    ELSE IF s[1] = "+" THEN DecVal(Tail(s))
    ELSE DecVal(s)

\* ------------------------------------------------------------ byte strings
RECURSIVE Concat(_)
Concat(ss) == IF ss = <<>> THEN <<>> ELSE Head(ss) \o Concat(Tail(ss))

RECURSIVE SumSeq(_)
SumSeq(s) == IF s = <<>> THEN 0 ELSE Head(s) + SumSeq(Tail(s))

\* len(b) of a byte string
len(b) == SumSeq([i \in 1..Len(b) |-> b[i].len])

\* the bytes of chunk number i (n bytes long) of response rid
ChunkBytes(rid, i, n) ==
    IF n = 0 THEN <<>> ELSE <<[rid |-> rid, idx |-> i, len |-> n]>>

\* res.iter_content(CHUCK_SIZE): the chunks the stream yields, in order
iter_content(r) == [i \in 1..Len(r.chunks) |-> ChunkBytes(r.id, i, r.chunks[i])]

\* res.content: the whole body
content(r) == Concat(iter_content(r))

\* --------------------------------------------------------------- inputs
Urls == {"", "http://h/a"}

GET_ == <<"G","E","T">>
get_ == <<"g","e","t">>
Post_ == <<"P","o","s","t">>
trace_ == <<"t","r","a","c","e">>

MethodArgs == {<<>>, get_, GET_, Post_, trace_}

\* status codes the transport answers with
Statuses == {200, 204, 404}

ChunkLens == {0, 40, 60}

RECURSIVE SeqsUpTo(_, _)
SeqsUpTo(S, n) ==
    IF n = 0 THEN {<<>>}
    ELSE LET shorter == SeqsUpTo(S, n - 1)
         IN  shorter \cup {Append(s, x) : s \in {t \in shorter : Len(t) = n - 1}, x \in S}

\* response headers: a dict from header name to value
BaseHeaders == "Content-Type" :> <<"b">>

WithLength(v) == BaseHeaders @@ ("Content-Length" :> v)

\* Content-Length header values the transport may send
LengthValues == {<<"0">>, <<"-","1">>, <<"8","0">>, <<"1","0","0">>, <<"x">>}

\* body and headers of the response to a call: the code reads them only from
\* a streamed 200 response, so other responses carry one fixed 40-byte body
Bodies(s, status) ==
    IF s /\ status = 200 THEN SeqsUpTo(ChunkLens, MaxChunks) ELSE {<<40>>}

HeaderSets(s, status) ==
    IF s /\ status = 200
    THEN {BaseHeaders} \cup {WithLength(v) : v \in LengthValues}
    ELSE {BaseHeaders}

\* requests.Response as the code sees it
Response(id, status, headers, chunks) ==
    [id |-> id, status_code |-> status, headers |-> headers, chunks |-> chunks]

NoRes == [isNone |-> TRUE]

\* content found at save_path before download opens it
NoFile == [exists |-> FALSE, data |-> <<>>]
OldFile == [exists |-> TRUE, data |-> <<[rid |-> 0, idx |-> 1, len |-> 40]>>]

\* ---------------------------------------------------------------- state
VARIABLES
    retry,            \* self.retry
    delay,            \* self.delay: [kind, counter, step]
    activations,      \* history: calls of self.delay.action()
    pauses,           \* history: the activations on which time.sleep ran
    totalCalls,       \* history: transport calls issued by this handler
    openStreams,      \* ids of streamed responses that are not closed
    ndispatch,        \* history: calls made on this handler
    pc,               \* "idle", "loop", "body", "iter", "done"
    op,               \* the public method running: "request", "download"
    args,             \* history: the url and method the caller passed
    url, method,      \* the locals of request (method is rebound to lower case)
    binding,          \* _method
    stream,           \* the call passes stream=True
    retry_count,
    res,
    calls,            \* history: the transport calls of this dispatch
    outcome,          \* how the call ended
    fileOpen,         \* the file handle f is open
    disk,             \* the file at save_path
    found,            \* history: the file at save_path as download found it
    writes,           \* history: the argument of each f.write call
    content_length, download_length,
    chunkIdx,         \* chunks the iter_content loop has consumed
    uncomment,        \* the argument of html
    decoded,          \* history: the text StringUtil.decode returned
    html              \* the local html of html()

throttleVars == <<delay, activations, pauses>>
loopVars == <<retry_count, res, calls, totalCalls, openStreams>>
entryVars == <<op, args, url, method, binding, stream, ndispatch>>
htmlVars == <<uncomment, decoded, html>>
fileVars == <<disk, writes, content_length, download_length, chunkIdx>>
vars == <<retry, delay, activations, pauses, totalCalls, openStreams, ndispatch,
          pc, op, args, url, method, binding, stream, retry_count, res, calls,
          outcome, fileOpen, disk, found, writes, content_length, download_length,
          chunkIdx, uncomment, decoded, html>>

\* Delay.__init__
NewDelay(kind, step) == [kind |-> kind, counter |-> 0, step |-> step]

\* RequestHandler(delay=None) builds a _FalseDelay_() (step 10 by default)
Delays == {NewDelay("_FalseDelay_", 10)} \cup {NewDelay("Delay", n) : n \in 1..MaxStep}

NoOutcome == [kind |-> "none"]
NoArgs == [url |-> "", method |-> <<>>]

\* the locals when no call is running
IdleLocals ==
    /\ pc = "idle" /\ op = None /\ args = NoArgs /\ url = "" /\ method = <<>>
    /\ binding = None /\ stream = FALSE /\ retry_count = 0 /\ res = NoRes
    /\ calls = <<>> /\ outcome = NoOutcome
    /\ fileOpen = FALSE /\ found = NoFile /\ writes = <<>>
    /\ content_length = 0 /\ download_length = 0 /\ chunkIdx = 0
    /\ uncomment = FALSE /\ decoded = <<>> /\ html = <<>>

\* RequestHandler.__init__, and the file system as the first call finds it
Init ==
    /\ retry \in (0 - 1)..MaxRetry
    /\ delay \in Delays
    /\ activations = 0 /\ pauses = {}
    /\ totalCalls = 0 /\ openStreams = {} /\ ndispatch = 0
    /\ disk \in {NoFile, OldFile}
    /\ IdleLocals

\* ------------------------------------------------------------- Delay
\* Delay.action, line 24
Increment(counter) == counter + 1

\* variant: sleeps on every activation from the step-th on
SleepsFromStepOn(counter, step) == counter >= step

\* Delay.action, line 25
Sleeps(counter, step) == counter % step = 0

\* Delay.action: the throttle after the call, and whether time.sleep ran
DelayAction(d) ==
    LET c == Increment(d.counter)
    IN  [delay |-> [d EXCEPT !.counter = c], slept |-> Sleeps(c, d.step)]

\* variant: the override is missing and Delay.action runs
FalseDelayActionInherited(d) ==
    [delay |-> [d EXCEPT !.counter = d.counter + 1],
     slept |-> (d.counter + 1) % d.step = 0]

\* RequestHandler._FalseDelay_.action
FalseDelayAction(d) == [delay |-> d, slept |-> FALSE]

\* self.delay.action(), dispatched on the class of self.delay
Activate(d) == IF d.kind = "Delay" THEN DelayAction(d) ELSE FalseDelayAction(d)

\* --------------------------------------------------- RequestHandler.request
\* self.methods
methods ==
    (<<"g","e","t">> :> "get") @@ (<<"o","p","t","i","o","n","s">> :> "options") @@
    (<<"h","e","a","d">> :> "head") @@ (<<"p","o","s","t">> :> "post") @@
    (<<"p","u","t">> :> "put") @@ (<<"p","a","t","c","h">> :> "patch") @@
    (<<"d","e","l","e","t","e">> :> "delete")

\* dict.get(key)
DictGet(d, k) == IF k \in DOMAIN d THEN d[k] ELSE None

\* variant: `and` in place of `or`
ArgsBothMissing(u, m) == m = <<>> /\ u = ""

\* line 87: not method or not url
ArgsIncomplete(u, m) == m = <<>> \/ u = ""

\* variant: <= in place of <
LoopRunsOnceMore(count, limit) == count <= limit

\* line 104: the loop condition
LoopRuns(count, limit) == count < limit

\* variant: == in place of !=
RejectedInverted(status) == status = 200

\* variant: only 4xx and 5xx answers are retried
RejectedOnErrorOnly(status) == status >= 400

\* line 111: the response is not accepted and the loop goes on
Rejected(status) == status # 200

Raise(error) == [kind |-> "raise", error |-> error]

\* line 116: the message carries res.status_code and url
HttpError(r, u) ==
    [kind |-> "raise", error |-> "HttpError", status |-> r.status_code, url |-> u]

Return(value) == [kind |-> "return", value |-> value]

\* an exception leaves the call: download's `with open(...) as f` closes f
\* on the way out (no file is open in a plain request)
Throw(error) ==
    /\ pc' = "done"
    /\ outcome' = error
    /\ fileOpen' = FALSE

\* lines 87-100: the argument checks and the loop's initial state
Enter(u, m, s) ==
    /\ args' = [url |-> u, method |-> m]
    /\ url' = u
    /\ stream' = s
    /\ ndispatch' = ndispatch + 1
    /\ retry_count' = 0 /\ res' = NoRes /\ calls' = <<>>
    /\ IF ArgsIncomplete(u, m)
       THEN /\ method' = m /\ binding' = None
            /\ Throw(Raise("InvalidArgument"))
       ELSE /\ method' = lower(m)
            /\ binding' = DictGet(methods, method')
            /\ IF binding' = None
               THEN Throw(Raise("UnsupportedMethod"))
               ELSE /\ pc' = "loop" /\ outcome' = NoOutcome
                    /\ fileOpen' = (s /\ op' = "download")

\* variant: the throttle is activated before the arguments are checked
RequestActivatesFirst ==
    /\ pc = "idle" /\ ndispatch < MaxDispatch
    /\ op' = "request"
    /\ \E u \in Urls, m \in MethodArgs : Enter(u, m, FALSE)
    /\ delay' = Activate(delay).delay
    /\ activations' = activations + 1
    /\ pauses' = IF Activate(delay).slept THEN pauses \cup {activations'} ELSE pauses
    /\ UNCHANGED <<retry, found, htmlVars, totalCalls, openStreams, fileVars>>

\* request(url, method) called on the handler
Request ==
    /\ pc = "idle" /\ ndispatch < MaxDispatch
    /\ op' = "request"
    /\ \E u \in Urls, m \in MethodArgs : Enter(u, m, FALSE)
    /\ UNCHANGED <<retry, found, htmlVars, throttleVars, totalCalls, openStreams, fileVars>>

\* lines 118-137: get, options, head, post, put, patch, delete
ConvenienceOps == {"get", "options", "head", "post", "put", "patch", "delete"}

\* variant: every convenience method passes 'get'
FixedMethodAlwaysGet(name) == <<"g","e","t">>

\* lines 119, 122, 125, 128, 131, 134, 137: the method the call passes on
FixedMethod(name) ==
    CASE name = "get" -> <<"g","e","t">>
      [] name = "options" -> <<"o","p","t","i","o","n","s">>
      [] name = "head" -> <<"h","e","a","d">>
      [] name = "post" -> <<"p","o","s","t">>
      [] name = "put" -> <<"p","u","t">>
      [] name = "patch" -> <<"p","a","t","c","h">>
      [] name = "delete" -> <<"d","e","l","e","t","e">>

\* get(url), ..., delete(url) called on the handler
Convenience ==
    /\ pc = "idle" /\ ndispatch < MaxDispatch
    /\ \E name \in ConvenienceOps, u \in Urls :
           /\ op' = name
           /\ Enter(u, FixedMethod(name), FALSE)
    /\ UNCHANGED <<retry, found, htmlVars, throttleVars, totalCalls, openStreams, fileVars>>

\* the calls that return what request returns
RequestOps == {"request"} \cup ConvenienceOps

\* variant: the throttle is skipped on the first attempt of a dispatch
IssueThrottlesRetriesOnly(raised, r) ==
    LET a == IF retry_count = 0 THEN [delay |-> delay, slept |-> FALSE]
             ELSE Activate(delay)
    IN  /\ retry_count' = retry_count + 1
        /\ delay' = a.delay
        /\ activations' = IF retry_count = 0 THEN activations ELSE activations + 1
        /\ pauses' = IF a.slept THEN pauses \cup {activations'} ELSE pauses
        /\ totalCalls' = totalCalls + 1
        /\ calls' = Append(calls, [binding |-> binding, stream |-> stream,
                                   raised |-> raised,
                                   response |-> r])

\* lines 106-110: count the attempt, activate the throttle, issue the call
Issue(raised, r) ==
    LET a == Activate(delay)
    IN  /\ retry_count' = retry_count + 1
        /\ delay' = a.delay
        /\ activations' = activations + 1
        /\ pauses' = IF a.slept THEN pauses \cup {activations'} ELSE pauses
        /\ totalCalls' = totalCalls + 1
        /\ calls' = Append(calls, [binding |-> binding, stream |-> stream,
                                   raised |-> raised,
                                   response |-> r])

\* the responses the transport may give to the next call
Answers(status) ==
    {Response(totalCalls + 1, status, h, b) :
        h \in HeaderSets(stream, status), b \in Bodies(stream, status)}

\* line 110: res is bound to the response; a streamed response stays open
Receive(r) ==
    /\ res' = r
    /\ openStreams' = IF stream THEN openStreams \cup {r.id} ELSE openStreams

\* lines 104-114, an accepted response: request returns it; in download the
\* `with ... as res` block is entered
AttemptReturn ==
    /\ pc = "loop" /\ LoopRuns(retry_count, retry)
    /\ \E status \in Statuses :
           /\ ~Rejected(status)
           /\ \E r \in Answers(status) : Issue(FALSE, r) /\ Receive(r)
    /\ IF op = "download"
       THEN /\ pc' = "body" /\ outcome' = NoOutcome
       ELSE IF op = "html"
       THEN /\ pc' = "decode" /\ outcome' = NoOutcome
       ELSE /\ pc' = "done" /\ outcome' = Return(res')
    /\ UNCHANGED <<retry, found, htmlVars, entryVars, fileOpen, fileVars>>

\* lines 104-113, a rejected response: the loop goes on
AttemptRetry ==
    /\ pc = "loop" /\ LoopRuns(retry_count, retry)
    /\ \E status \in Statuses :
           /\ Rejected(status)
           /\ \E r \in Answers(status) : Issue(FALSE, r) /\ Receive(r)
    /\ UNCHANGED <<retry, found, htmlVars, entryVars, pc, outcome, fileOpen, fileVars>>

\* variant: the transport's exception is caught and the loop goes on
AttemptRaiseSwallowed ==
    /\ pc = "loop" /\ LoopRuns(retry_count, retry)
    /\ Issue(TRUE, NoRes)
    /\ UNCHANGED <<retry, found, htmlVars, entryVars, pc, outcome, fileOpen, res, openStreams, fileVars>>

\* line 110 raises: the transport's exception leaves request
AttemptRaise ==
    /\ pc = "loop" /\ LoopRuns(retry_count, retry)
    /\ Issue(TRUE, NoRes)
    /\ Throw([kind |-> "raise", error |-> "TransportError", attempt |-> retry_count'])
    /\ UNCHANGED <<retry, found, htmlVars, entryVars, res, openStreams, fileVars>>

\* variant: the error reports the first response, not the last
ExhaustedFirstStatus ==
    /\ pc = "loop" /\ ~LoopRuns(retry_count, retry)
    /\ IF res = NoRes
       THEN Throw(Raise("AttributeError"))
       ELSE Throw(HttpError(calls[1].response, url))
    /\ UNCHANGED <<retry, found, htmlVars, throttleVars, entryVars, loopVars, fileVars>>

\* variant: without a response the call returns None
ExhaustedReturnsNone ==
    /\ pc = "loop" /\ ~LoopRuns(retry_count, retry)
    /\ IF res = NoRes
       THEN pc' = "done" /\ outcome' = Return(NoRes) /\ fileOpen' = FALSE
       ELSE Throw(HttpError(res, url))
    /\ UNCHANGED <<retry, found, htmlVars, throttleVars, entryVars, loopVars, fileVars>>

\* line 116: the loop is over without a return
Exhausted ==
    /\ pc = "loop" /\ ~LoopRuns(retry_count, retry)
    /\ IF res = NoRes
       THEN Throw(Raise("AttributeError"))
       ELSE Throw(HttpError(res, url))
    /\ UNCHANGED <<retry, found, htmlVars, throttleVars, entryVars, loopVars, fileVars>>

\* the caller has the result; the handler is ready for the next call
Finish ==
    /\ pc = "done" /\ op \in RequestOps
    /\ pc' = "idle" /\ op' = None /\ args' = NoArgs /\ url' = "" /\ method' = <<>>
    /\ binding' = None /\ stream' = FALSE /\ retry_count' = 0 /\ res' = NoRes
    /\ calls' = <<>> /\ outcome' = NoOutcome
    /\ UNCHANGED <<retry, found, htmlVars, throttleVars, totalCalls, openStreams, ndispatch,
                   fileOpen, fileVars>>

\* ------------------------------------------------------ RequestHandler.html
\* the characters of the texts a body decodes to
TextChars == {"<", "!", "-", ">"}

\* the texts StringUtil.decode may return
Texts == SeqsUpTo(TextChars, MaxText)

\* s.replace(old, ''): the occurrences of old, found from left to right
\* without overlap, are taken out
RECURSIVE Remove(_, _)
Remove(s, old) ==
    IF Len(s) < Len(old) THEN s
    ELSE IF SubSeq(s, 1, Len(old)) = old
         THEN Remove(SubSeq(s, Len(old) + 1, Len(s)), old)
         ELSE <<Head(s)>> \o Remove(Tail(s), old)

\* line 143
Uncomment(t) == Remove(Remove(t, <<"<","!","-","-">>), <<"-","-",">">>)

\* line 140: html(url, uncomment=...) calls request(url, 'get')
Html ==
    /\ pc = "idle" /\ ndispatch < MaxDispatch
    /\ op' = "html"
    /\ \E u \in Urls, c \in BOOLEAN :
           /\ uncomment' = c
           /\ Enter(u, <<"g","e","t">>, FALSE)
    /\ UNCHANGED <<retry, found, decoded, html, throttleVars, totalCalls,
                   openStreams, fileVars>>

\* lines 141-144: the body is decoded, stripped if asked, and returned
HtmlText ==
    /\ pc = "decode"
    /\ \E t \in Texts :
           /\ decoded' = t
           /\ html' = IF uncomment THEN Uncomment(t) ELSE t
    /\ pc' = "done"
    /\ outcome' = [kind |-> "return", text |-> html']
    /\ UNCHANGED <<retry, found, uncomment, throttleVars, entryVars, loopVars,
                   fileOpen, fileVars>>

\* line 141: no encoding decodes the body
HtmlDecodeError ==
    /\ pc = "decode"
    /\ Throw(Raise("DecodeError"))
    /\ UNCHANGED <<retry, found, htmlVars, throttleVars, entryVars, loopVars,
                   fileVars>>

\* -------------------------------------------------- RequestHandler.download
\* variant: > in place of >=
LengthExceeded(downloaded, declared) == downloaded > declared

\* line 165: the loop stops reading
LengthReached(downloaded, declared) == downloaded >= declared

\* line 162: if chuck
NonEmpty(chuck) == chuck # <<>>

\* f.write(b)
Write(b) ==
    /\ writes' = Append(writes, b)
    /\ disk' = [disk EXCEPT !.data = @ \o b]

\* the two `with` blocks are left: res.close() and f.close()
Leave(result) ==
    /\ openStreams' = openStreams \ {res.id}
    /\ fileOpen' = FALSE
    /\ pc' = "done"
    /\ outcome' = result

\* variant: the file is opened with 'ab'
DownloadAppends ==
    /\ pc = "idle" /\ ndispatch < MaxDispatch
    /\ op' = "download"
    /\ found' = disk
    /\ disk' = [exists |-> TRUE, data |-> disk.data]
    /\ \E u \in Urls, m \in MethodArgs : Enter(u, m, TRUE)
    /\ UNCHANGED <<retry, htmlVars, throttleVars, totalCalls, openStreams, writes,
                   content_length, download_length, chunkIdx>>

\* lines 152-157: open(save_path, 'wb') creates or truncates the file, then
\* request(url, method, stream=True) starts
Download ==
    /\ pc = "idle" /\ ndispatch < MaxDispatch
    /\ op' = "download"
    /\ found' = disk
    /\ disk' = [exists |-> TRUE, data |-> <<>>]
    /\ \E u \in Urls, m \in MethodArgs : Enter(u, m, TRUE)
    /\ UNCHANGED <<retry, htmlVars, throttleVars, totalCalls, openStreams, writes,
                   content_length, download_length, chunkIdx>>

\* lines 158-160: the response declares a length that int() accepts
DownloadLength ==
    /\ pc = "body"
    /\ "Content-Length" \in DOMAIN res.headers
    /\ IsInt(res.headers["Content-Length"])
    /\ content_length' = int(res.headers["Content-Length"])
    /\ download_length' = 0
    /\ pc' = "iter"
    /\ UNCHANGED <<retry, found, htmlVars, throttleVars, entryVars, loopVars, outcome, fileOpen,
                   disk, writes, chunkIdx>>

\* line 159: int() raises ValueError
DownloadBadLength ==
    /\ pc = "body"
    /\ "Content-Length" \in DOMAIN res.headers
    /\ ~IsInt(res.headers["Content-Length"])
    /\ Leave(Raise("ValueError"))
    /\ UNCHANGED <<retry, found, htmlVars, throttleVars, entryVars, retry_count, res, calls,
                   totalCalls, fileVars>>

\* variant: the body is written chunk by chunk
DownloadWholeByChunks ==
    /\ pc = "body"
    /\ "Content-Length" \notin DOMAIN res.headers
    /\ writes' = writes \o SelectSeq(iter_content(res), NonEmpty)
    /\ disk' = [disk EXCEPT !.data = @ \o content(res)]
    /\ chunkIdx' = Len(iter_content(res))
    /\ Leave(Return(NoRes))
    /\ UNCHANGED <<retry, found, htmlVars, throttleVars, entryVars, retry_count, res, calls,
                   totalCalls, content_length, download_length>>

\* lines 167-168: no declared length, the whole body in one write
DownloadWhole ==
    /\ pc = "body"
    /\ "Content-Length" \notin DOMAIN res.headers
    /\ Write(content(res))
    /\ Leave(Return(NoRes))
    /\ UNCHANGED <<retry, found, htmlVars, throttleVars, entryVars, retry_count, res, calls,
                   totalCalls, content_length, download_length, chunkIdx>>

\* lines 161-166: one turn of the chunk loop
DownloadChunk ==
    /\ pc = "iter"
    /\ chunkIdx < Len(iter_content(res))
    /\ LET chuck == iter_content(res)[chunkIdx + 1]
       IN  /\ chunkIdx' = chunkIdx + 1
           /\ IF NonEmpty(chuck) THEN Write(chuck) ELSE UNCHANGED <<writes, disk>>
           /\ download_length' = download_length + len(chuck)
           /\ IF LengthReached(download_length', content_length)
              THEN Leave(Return(NoRes))
              ELSE UNCHANGED <<pc, outcome, fileOpen, openStreams>>
    /\ UNCHANGED <<retry, found, htmlVars, throttleVars, entryVars, retry_count, res, calls,
                   totalCalls, content_length>>

\* variant: a body shorter than the declared length is an error
DownloadEndReportsShort ==
    /\ pc = "iter"
    /\ chunkIdx >= Len(iter_content(res))
    /\ IF download_length < content_length
       THEN Leave(Raise("ShortBody"))
       ELSE Leave(Return(NoRes))
    /\ UNCHANGED <<retry, found, htmlVars, throttleVars, entryVars, retry_count, res, calls,
                   totalCalls, fileVars>>

\* line 161: the stream has no more chunks, the loop ends
DownloadEnd ==
    /\ pc = "iter"
    /\ chunkIdx >= Len(iter_content(res))
    /\ Leave(Return(NoRes))
    /\ UNCHANGED <<retry, found, htmlVars, throttleVars, entryVars, retry_count, res, calls,
                   totalCalls, fileVars>>

\* lines 161, 163, 168: reading the stream or writing the file raises
DownloadRaise ==
    /\ pc \in {"body", "iter"}
    /\ Leave(Raise("IOError"))
    /\ UNCHANGED <<retry, found, htmlVars, throttleVars, entryVars, retry_count, res, calls,
                   totalCalls, fileVars>>

Next ==
    \/ Request
    \/ Convenience
    \/ AttemptReturn
    \/ AttemptRetry
    \/ AttemptRaise
    \/ Exhausted
    \/ Finish

\* calls of request through one handler, one after the other
Spec == Init /\ [][Next]_vars

NextDownload ==
    \/ Download
    \/ AttemptReturn
    \/ AttemptRetry
    \/ AttemptRaise
    \/ Exhausted
    \/ DownloadLength
    \/ DownloadBadLength
    \/ DownloadWhole
    \/ DownloadChunk
    \/ DownloadEnd
    \/ DownloadRaise

\* one call of download on a new handler
SpecDownload == Init /\ [][NextDownload]_vars

NextHtml ==
    \/ Html
    \/ AttemptReturn
    \/ AttemptRetry
    \/ AttemptRaise
    \/ Exhausted
    \/ HtmlText
    \/ HtmlDecodeError

\* one call of html on a new handler
SpecHtml == Init /\ [][NextHtml]_vars

\* ================================================================ claims
\* the seven verbs the specification lists
VerbNames ==
    {<<"g","e","t">>, <<"o","p","t","i","o","n","s">>, <<"h","e","a","d">>,
     <<"p","o","s","t">>, <<"p","u","t">>, <<"p","a","t","c","h">>,
     <<"d","e","l","e","t","e">>}

Running == pc # "idle"

EmptyArg == args.url = "" \/ args.method = <<>>

ValidArgs == ~EmptyArg /\ lower(args.method) \in VerbNames

Got(i) == calls[i].response

Answered(i, status) == ~calls[i].raised /\ Got(i).status_code = status

\* every transport call of this dispatch so far returned a non-200 response
AllNon200 == \A i \in 1..Len(calls) : ~calls[i].raised /\ Got(i).status_code # 200

Failed(error) == pc = "done" /\ outcome.kind = "raise" /\ outcome.error = error

\* C1: with max_retries = R > 0 and valid arguments, a request whose
\* transport answers every call with a non-200 status issues exactly R
\* calls and then fails with the HttpError: never an (R+1)-th call, never an
\* earlier failure.
C1_ExactlyRAttempts ==
    (Running /\ op = "request" /\ retry > 0 /\ ValidArgs /\ AllNon200) =>
        /\ Len(calls) <= retry
        /\ retry_count = Len(calls)
        /\ pc \in {"loop", "done"}
        /\ pc = "done" => Failed("HttpError") /\ Len(calls) = retry

C1_Witness ==
    /\ op = "request" /\ retry >= 2 /\ AllNon200
    /\ Failed("HttpError") /\ Len(calls) = retry

\* C2: when the first k < R calls are answered non-200 and call k+1 is
\* answered 200, request returns that response after exactly k+1 calls: no
\* call follows the first 200.
C2_ReturnsFirst200 ==
    op = "request" =>
        \A i \in 1..Len(calls) :
            Answered(i, 200) =>
                /\ i = Len(calls)
                /\ i <= retry
                /\ \A j \in 1..(i - 1) : ~calls[j].raised /\ Got(j).status_code # 200
                /\ pc = "done"
                /\ outcome = [kind |-> "return", value |-> Got(i)]

C2_Witness ==
    /\ op = "request" /\ pc = "done" /\ outcome.kind = "return"
    /\ Len(calls) = 2 /\ Answered(1, 404) /\ Answered(2, 200)
    /\ outcome.value = Got(2)

\* C3: request with an empty url, an empty method or a method whose
\* lower-cased form is none of the seven verbs fails before any transport
\* call: InvalidArgument for an empty argument (also when the method is
\* unknown as well), UnsupportedMethod for an unbound verb.
C3_BadArgsNoCall ==
    (Running /\ op = "request" /\ ~ValidArgs) =>
        /\ pc = "done"
        /\ outcome.kind = "raise"
        /\ outcome.error = IF EmptyArg THEN "InvalidArgument" ELSE "UnsupportedMethod"
        /\ calls = <<>>
        /\ retry_count = 0

C3_Witness ==
    /\ op = "request" /\ args.url = "" /\ args.method = trace_
    /\ Failed("InvalidArgument") /\ calls = <<>>

C3_WitnessUnsupported ==
    /\ op = "request" /\ args.url # "" /\ args.method = trace_
    /\ Failed("UnsupportedMethod") /\ calls = <<>>

\* C4: the HttpError raised when the loop has used all max_retries attempts
\* carries the status code of the last response received and the url asked
\* for.
C4_LastStatusAndUrl ==
    (op = "request" /\ Failed("HttpError")) =>
        /\ Len(calls) = retry
        /\ AllNon200
        /\ outcome.status = Got(Len(calls)).status_code
        /\ outcome.url = args.url

C4_Witness ==
    /\ op = "request" /\ Failed("HttpError")
    /\ Len(calls) = 2 /\ Answered(1, 404) /\ Answered(2, 204)
    /\ outcome.status = 204

\* C5: when the transport call itself raises on attempt j, the request ends
\* with that failure after exactly j calls, also when j < max_retries: it is
\* not retried and not wrapped; only a returned non-200 response is followed
\* by another attempt.
C5_TransportFailurePropagates ==
    op = "request" =>
        \A j \in 1..Len(calls) :
            /\ calls[j].raised =>
                   /\ j = Len(calls)
                   /\ pc = "done"
                   /\ outcome = [kind |-> "raise", error |-> "TransportError",
                                 attempt |-> j]
            /\ j < Len(calls) => ~calls[j].raised /\ Got(j).status_code # 200

C5_Witness ==
    /\ op = "request" /\ Failed("TransportError")
    /\ Len(calls) = 1 /\ calls[1].raised /\ retry >= 2

\* C6: a Delay with step N counts every activation (after m activations the
\* counter is m) and pauses on activation i iff i mod N = 0: N activations
\* of a new throttle give one pause, on the N-th; m activations give
\* floor(m / N) pauses.
C6_PauseEveryNth ==
    delay.kind = "Delay" =>
        /\ delay.counter = activations
        /\ pauses = {i \in 1..activations : i % delay.step = 0}
        /\ Cardinality(pauses) = activations \div delay.step
        /\ activations = delay.step => pauses = {delay.step}

C6_Witness ==
    /\ delay.kind = "Delay" /\ delay.step = 2
    /\ activations = 5 /\ pauses = {2, 4}

\* ----------------------------------------------------------- download
\* the length a Content-Length value declares
DeclaredLength ==
    (<<"0">> :> 0) @@ (<<"-","1">> :> (0 - 1)) @@ (<<"8","0">> :> 80) @@
    (<<"1","0","0">> :> 100)

DeclaresLength(r) ==
    /\ "Content-Length" \in DOMAIN r.headers
    /\ r.headers["Content-Length"] \in DOMAIN DeclaredLength

Declared(r) == DeclaredLength[r.headers["Content-Length"]]

\* total length of the first n chunks of r
PrefixLength(r, n) == SumSeq(SubSeq(r.chunks, 1, n))

\* the first n chunks of r that are not empty, each as one whole write
RECURSIVE WholeChunks(_, _)
WholeChunks(r, n) ==
    IF n = 0 THEN <<>>
    ELSE WholeChunks(r, n - 1) \o
         (IF r.chunks[n] = 0 THEN <<>>
          ELSE << <<[rid |-> r.id, idx |-> n, len |-> r.chunks[n]]>> >>)

IsPrefix(s, t) == Len(s) <= Len(t) /\ SubSeq(t, 1, Len(s)) = s

Downloaded == op = "download" /\ pc = "done" /\ outcome.kind = "return"

\* the prefixes of r's chunk sequence, from `least` chunks on, that reach L
Reaching(r, L, least) == {n \in least..Len(r.chunks) : PrefixLength(r, n) >= L}

Shortest(S) == CHOOSE n \in S : \A k \in S : n <= k

\* C7 as stated: against a response declaring Content-Length = L, download
\* writes exactly the non-empty chunks of the shortest prefix of the chunk
\* sequence whose total length is >= L, each whole and in order, and nothing
\* after that prefix.
C7_ShortestPrefixWritten ==
    (Downloaded /\ DeclaresLength(res) /\ Reaching(res, Declared(res), 0) # {}) =>
        writes = WholeChunks(res, Shortest(Reaching(res, Declared(res), 0)))

\* C7, amended: the prefix holds at least one chunk, since the lengths are
\* compared only after a chunk is read.  While the loop runs the writes are
\* an initial part of those chunks; the file holds the writes, whole, so it
\* may hold more than L bytes.  With L = 100 and chunks of 40/40/40 bytes
\* all three are written, 120 bytes.
C7_ShortestNonEmptyPrefixWritten ==
    (op = "download" /\ pc \in {"iter", "done"} /\ res # NoRes
        /\ DeclaresLength(res)) =>
        LET L == Declared(res)
            reach == Reaching(res, L, 1)
            stop == IF reach = {} THEN Len(res.chunks) ELSE Shortest(reach)
        IN  /\ IsPrefix(writes, WholeChunks(res, stop))
            /\ disk.data = Concat(writes)
            /\ (Downloaded /\ reach # {}) =>
                   /\ writes = WholeChunks(res, stop)
                   /\ chunkIdx = stop
                   /\ len(disk.data) = PrefixLength(res, stop)
                   /\ len(disk.data) >= L
            /\ (Downloaded /\ L = 100 /\ res.chunks = <<40, 40, 40>>) =>
                   Len(writes) = 3 /\ len(disk.data) = 120

C7_Witness ==
    /\ Downloaded /\ DeclaresLength(res) /\ Declared(res) = 100
    /\ res.chunks = <<40, 40, 40>>
    /\ Len(writes) = 3 /\ len(disk.data) = 120

C7_WitnessStopsEarly ==
    /\ Downloaded /\ DeclaresLength(res) /\ Declared(res) = 80
    /\ res.chunks = <<60, 0, 40>>
    /\ Len(writes) = 2 /\ len(disk.data) = 100

\* C8: against a 200 response without a Content-Length header, download
\* writes the whole body in exactly one write call and never iterates over
\* the chunks.
C8_WholeBodyInOneWrite ==
    (op = "download" /\ pc \in {"body", "iter", "done"} /\ res # NoRes
        /\ "Content-Length" \notin DOMAIN res.headers) =>
        /\ pc # "iter"
        /\ chunkIdx = 0
        /\ Len(writes) <= 1
        /\ Downloaded =>
               /\ writes = <<Concat(WholeChunks(res, Len(res.chunks)))>>
               /\ disk.data = Concat(WholeChunks(res, Len(res.chunks)))

C8_Witness ==
    /\ Downloaded /\ "Content-Length" \notin DOMAIN res.headers
    /\ res.chunks = <<40, 60, 40>>
    /\ Len(writes) = 1 /\ len(writes[1]) = 140

\* C9: on every exit path of download the destination file handle is closed
\* and no response stream opened by that call, those of the retried non-200
\* attempts included, is left open.
C9_EverythingClosedOnExit ==
    (op = "download" /\ pc = "done") =>
        /\ ~fileOpen
        /\ openStreams = {}

\* C10: download runs the retry loop of request with every call in stream
\* mode: k < max_retries non-200 answers and then a 200 give exactly k+1
\* calls, and only the body of the 200 response is written; non-200 answers
\* only give max_retries calls, no byte written and the HttpError.
C10_DownloadRetries ==
    op = "download" =>
        /\ \A i \in 1..Len(calls) : calls[i].stream
        /\ calls # <<>> => Len(calls) <= retry
        /\ \A i \in 1..Len(calls) : Answered(i, 200) => i = Len(calls)
        /\ pc \in {"body", "iter"} => Len(calls) > 0 /\ Answered(Len(calls), 200)
        /\ \A w \in 1..Len(writes) : \A b \in 1..Len(writes[w]) :
               /\ writes[w][b].rid = res.id
               /\ res = Got(Len(calls))
               /\ Answered(Len(calls), 200)
        /\ Downloaded => Answered(Len(calls), 200)
        /\ (Running /\ retry > 0 /\ ValidArgs /\ AllNon200 /\ pc = "done") =>
               /\ Failed("HttpError")
               /\ Len(calls) = retry
               /\ writes = <<>>
               /\ disk.data = <<>>

C10_Witness ==
    /\ Downloaded /\ Len(calls) = 2 /\ Answered(1, 404) /\ Answered(2, 200)
    /\ writes # <<>> /\ len(disk.data) > 0

C10_WitnessExhausted ==
    /\ op = "download" /\ Failed("HttpError") /\ Len(calls) = 2 /\ retry = 2
    /\ writes = <<>>

\* ------------------------------------------------- throttle and dispatch
\* C12: in every dispatch each transport call comes after one activation of
\* the throttle made for it, the first attempt included; so with a Delay
\* shared by the handler the counter equals the number of transport calls
\* issued through the handler, and a pause precedes the n-th call overall
\* iff n mod step = 0, whether the calls succeeded, failed or belonged to
\* different dispatches.
C12_OneActivationPerCall ==
    /\ activations = totalCalls
    /\ Running => retry_count = Len(calls)
    /\ delay.kind = "Delay" =>
           /\ delay.counter = totalCalls
           /\ \A n \in 1..totalCalls : (n \in pauses) <=> (n % delay.step = 0)
           /\ pauses \subseteq 1..totalCalls

C12_Witness ==
    /\ delay.kind = "Delay" /\ delay.step = 2 /\ ndispatch = 3
    /\ totalCalls = 4 /\ pauses = {2, 4}
    /\ Failed("TransportError") /\ Len(calls) = 1

\* C13: request returns only a response whose status is exactly 200; every
\* other end of a dispatch is an error, a 2xx status other than 200
\* included.
C13_Only200Returned ==
    (op \in RequestOps /\ pc = "done") =>
        IF outcome.kind = "return"
        THEN /\ outcome.value # NoRes
             /\ outcome.value.status_code = 200
        ELSE outcome.kind = "raise"

C13_Witness ==
    /\ op = "request" /\ Failed("HttpError") /\ retry = 2
    /\ Answered(1, 204) /\ Answered(2, 204)

C13_WitnessReturn ==
    /\ op = "request" /\ pc = "done" /\ outcome.kind = "return"
    /\ Answered(1, 204) /\ Answered(2, 200)

\* C14: a handler built without a throttle holds the no-op variant: over
\* any sequence of dispatches and attempts it never pauses and its counter
\* stays 0.
C14_NoOpThrottle ==
    delay.kind = "_FalseDelay_" =>
        /\ pauses = {}
        /\ delay.counter = 0

C14_Witness ==
    /\ delay.kind = "_FalseDelay_" /\ activations >= 5 /\ delay.counter = 0

\* the verb each spelling of a method names
VerbOfSpelling == (get_ :> "get") @@ (GET_ :> "get") @@ (Post_ :> "post")

SameBinding(verb) ==
    /\ binding = verb
    /\ \A i \in 1..Len(calls) : calls[i].binding = verb /\ ~calls[i].stream

\* how a dispatch that passed the argument checks may end
RequestContract ==
    pc = "done" =>
        \/ /\ outcome.kind = "return" /\ calls # <<>>
           /\ outcome.value = Got(Len(calls)) /\ Answered(Len(calls), 200)
        \/ /\ Failed("HttpError") /\ Len(calls) = retry
           /\ outcome.status = Got(Len(calls)).status_code /\ outcome.url = args.url
        \/ /\ Failed("TransportError") /\ calls # <<>> /\ calls[Len(calls)].raised
        \/ /\ Failed("AttributeError") /\ retry <= 0

\* C15: the method is lower-cased before the lookup and every attempt of a
\* dispatch uses the one binding found ("GET" and "get" the get binding,
\* "Post" the post binding); get, options, head, post, put, patch and delete
\* behave as request with their own verb as the method.
C15_VerbBinding ==
    /\ (Running /\ op = "request" /\ ~EmptyArg /\ args.method \in DOMAIN VerbOfSpelling) =>
           /\ SameBinding(VerbOfSpelling[args.method])
           /\ RequestContract
    /\ (Running /\ op \in ConvenienceOps) =>
           /\ args.method \in DOMAIN methods
           /\ methods[args.method] = op
           /\ IF args.url = ""
              THEN Failed("InvalidArgument") /\ calls = <<>>
              ELSE SameBinding(op) /\ RequestContract

C15_Witness ==
    /\ op = "post" /\ Len(calls) = 2 /\ SameBinding("post")
    /\ pc = "done" /\ outcome.kind = "return"

C15_WitnessCase ==
    /\ op = "request" /\ args.method = Post_ /\ Len(calls) = 2
    /\ SameBinding("post") /\ method = <<"p","o","s","t">>

\* C16: a dispatch that fails its argument checks (empty url, empty method,
\* unsupported method) does not touch the shared throttle: no activation, the
\* counter keeps its value, no pause.
C16_BadArgsLeaveThrottle ==
    [][(pc = "idle" /\ pc' # "idle" /\ ~ValidArgs') =>
          /\ pc' = "done" /\ outcome'.kind = "raise"
          /\ delay' = delay
          /\ activations' = activations
          /\ pauses' = pauses
          /\ totalCalls' = totalCalls]_vars

C16_Witness ==
    /\ op = "request" /\ Failed("UnsupportedMethod") /\ ndispatch = 2
    /\ delay.kind = "Delay" /\ delay.step = 2 /\ delay.counter = 1
    /\ activations = 1 /\ pauses = {}

\* C19: with max_retries <= 0 and valid arguments a dispatch issues no
\* transport call, activates no throttle and still ends with an error, not
\* with a return; no response exists, so the error is not the HttpError that
\* carries a status code and the url.
C19_NoAttemptStillFails ==
    [][(retry <= 0 /\ op' \in RequestOps /\ ValidArgs') =>
          /\ calls' = <<>> /\ retry_count' = 0 /\ res' = NoRes
          /\ totalCalls' = totalCalls
          /\ delay' = delay /\ activations' = activations /\ pauses' = pauses
          /\ pc' \in {"loop", "done"}
          /\ pc' = "done" =>
                 /\ outcome'.kind = "raise"
                 /\ outcome'.error = "AttributeError"
                 /\ outcome' = [kind |-> "raise", error |-> "AttributeError"]]_vars

C19_Witness ==
    /\ op = "request" /\ retry = 0 /\ ValidArgs
    /\ Failed("AttributeError") /\ calls = <<>> /\ totalCalls = 0

C19_WitnessNegative ==
    /\ op = "get" /\ retry < 0 /\ ValidArgs
    /\ Failed("AttributeError") /\ calls = <<>> /\ activations = 0

\* ------------------------------------------------- download, file and end
EmptyFile == [exists |-> TRUE, data |-> <<>>]

\* the request inside download raised
DispatchFailed ==
    /\ op = "download" /\ pc = "done" /\ outcome.kind = "raise"
    /\ outcome.error \in {"InvalidArgument", "UnsupportedMethod", "HttpError",
                          "TransportError", "AttributeError"}

\* C17: download creates and truncates the destination file before it
\* issues any request: whenever the dispatch inside it fails (unsupported
\* method, HttpError after max_retries non-200 answers, transport failure)
\* the file exists afterwards and is empty, whatever it held before.
C17_TruncatedBeforeRequest ==
    /\ (op = "download" /\ pc = "loop") => disk = EmptyFile
    /\ (op = "download" /\ calls # <<>> /\ writes = <<>>) => disk = EmptyFile
    /\ DispatchFailed => disk = EmptyFile /\ writes = <<>>

C17_Witness ==
    /\ DispatchFailed /\ outcome.error = "HttpError" /\ Len(calls) = 2
    /\ found = OldFile /\ disk = EmptyFile

C17_WitnessUnsupported ==
    /\ DispatchFailed /\ outcome.error = "UnsupportedMethod"
    /\ found = OldFile /\ disk = EmptyFile

\* the chunks of res end before the declared length is reached
ShortBody ==
    /\ res # NoRes /\ DeclaresLength(res)
    /\ PrefixLength(res, Len(res.chunks)) < Declared(res)

\* C18: download against a response declaring Content-Length = L comes to
\* an end for every finite chunk sequence: every turn of the chunk loop
\* either leaves the loop or consumes one more of the finitely many chunks,
\* and a turn is always possible.  When the chunks run out with the
\* cumulative length still below L it returns normally, every non-empty
\* chunk written: a short body is not reported.
C18_ShortBodyReturns ==
    [][(op' = "download") =>
          /\ (pc = "iter") =>
                 /\ ENABLED (DownloadChunk \/ DownloadEnd)
                 /\ pc' \in {"iter", "done"}
                 /\ pc' = "iter" =>
                        /\ chunkIdx' = chunkIdx + 1
                        /\ chunkIdx' <= Len(res.chunks)
                        /\ res' = res
          /\ (Downloaded' /\ ShortBody') =>
                 /\ writes' = WholeChunks(res', Len(res'.chunks))
                 /\ chunkIdx' = Len(res'.chunks)
                 /\ download_length' = PrefixLength(res', Len(res'.chunks))
                 /\ outcome' = [kind |-> "return", value |-> NoRes]
          /\ (pc' = "done" /\ outcome'.kind = "raise") =>
                 outcome'.error \in {"InvalidArgument", "UnsupportedMethod",
                                     "HttpError", "TransportError",
                                     "AttributeError", "ValueError", "IOError"}]_vars

C18_Witness ==
    /\ Downloaded /\ ShortBody /\ Declared(res) = 100
    /\ res.chunks = <<40, 0, 40>> /\ Len(writes) = 2 /\ len(disk.data) = 80

\* ------------------------------------------------------------------ html
\* old occurs in s
RECURSIVE Occurs(_, _)
Occurs(old, s) ==
    /\ Len(s) >= Len(old)
    /\ \/ SubSeq(s, 1, Len(old)) = old
       \/ Occurs(old, Tail(s))

\* C11: html with strip_comments set returns a string that contains
\* neither <!-- nor -->, so stripping it once more changes nothing.
C11_NoDelimiterLeft ==
    (op = "html" /\ pc = "done" /\ outcome.kind = "return" /\ uncomment) =>
        /\ ~Occurs(<<"<","!","-","-">>, html)
        /\ ~Occurs(<<"-","-",">">>, html)
        /\ outcome.text = html
====
